---- MODULE Spec2Model ----
(***************************************************************************)
(* A model of the storage, prefix and link-codec layers of GroveDB:        *)
(*   - RocksDbStorage's multi-context batch commits, with and without a    *)
(*     transaction, and the cost record they return (storage.rs);          *)
(*   - RocksDbStorage::build_prefix, the subtree prefix (storage.rs);      *)
(*   - the binary encoding of a Merk child link (link.rs);                 *)
(*   - the constructors and accessors of a link and decode_into (link.rs); *)
(*   - the Merk AVL tree and its node hashes;                              *)
(*   - GroveDb::insert, insert_if_not_exists (insert.rs) and               *)
(*     is_empty_tree (is_empty_tree.rs).                                   *)
(* Each layer has a specification of its own: Spec, SpecPrefix, SpecLink,  *)
(* SpecLinkOps, SpecMerk, SpecGrove, SpecGroveOps.                         *)
(***************************************************************************)
EXTENDS Integers, Sequences, FiniteSets, TLC

VARIABLES
    db,       \* the committed database: column family -> key -> Option<value>
    tx,       \* the one open transaction: its write set and its savepoints
    call,     \* the last storage call: function, batch, injected backend failure
    ret,      \* what the last storage call returned: Ok/Err and the cost
    used,     \* batch operations submitted so far (bounds the run)
    path,     \* build_prefix: the path given
    host,     \* build_prefix: the target the crate was compiled for
    prefix,   \* build_prefix: what it fed to the hash, and the cost
    link,     \* link codec: the link
    build,    \* link codec: "debug" or "release" (debug_assert! is compiled out)
    out,      \* link codec: the results of encode_into and encoding_length
    res,      \* link: the last decode or accessor call and its result
    grove,    \* GroveDb: subtrees, root_leaf_keys, root_tree, and what is stored
    gop,      \* GroveDb: the last call, its result, and the calls made so far
    merk_state, \* Merk: the tree
    mres      \* Merk: the last apply and whether it was accepted

vars ==
    <<db, tx, call, ret, used, path, host, prefix, link, build, out, res,
      grove, gop, merk_state, mres>>

storageVars == <<db, tx, call, ret, used>>
prefixVars == <<path, host, prefix>>
linkVars == <<link, build, out, res>>
groveVars == <<grove, gop>>
merkVars == <<merk_state, mres>>

----------------------------------------------------------------------------
(* Bounds *)

MaxBatchLen == 2      \* longest StorageBatch submitted in one call
MaxOps == 2           \* batch operations submitted over a whole run
MaxSegments == 2      \* most segments in a path given to build_prefix
MaxPathBytes == 3     \* most bytes in a path, over all its segments
MaxKeyLen == 257      \* longest key of a link handed to the codec
MaxDepth == 2         \* longest path given to GroveDb::insert
MaxInserts == 2       \* GroveDb::insert calls over a whole run
MaxApplyLen == 2      \* most operations in a batch given to Merk::apply
MaxGroveCalls == 1    \* insert_if_not_exists and is_empty_tree calls over a run

----------------------------------------------------------------------------
(* Bytes and options *)

RECURSIVE Concat(_)
Concat(ss) == IF ss = <<>> THEN <<>> ELSE Head(ss) \o Concat(Tail(ss))

\* Option<T>: None is <<>>, Some(x) is <<x>>.
None == <<>>
Some(x) == <<x>>

----------------------------------------------------------------------------
(* Storage: column families, keys, values, batches *)

AUX_CF_NAME == "aux"
ROOTS_CF_NAME == "roots"
META_CF_NAME == "meta"
DEFAULT_CF == "default"

CFs == {DEFAULT_CF, AUX_CF_NAME, ROOTS_CF_NAME, META_CF_NAME}

Keys == {<<1, 2>>}
Values == {<<7>>, <<8, 9, 10>>}

PutKinds == {"Put", "PutAux", "PutRoot", "PutMeta"}
DeleteKinds == {"Delete", "DeleteAux", "DeleteRoot", "DeleteMeta"}

\* BatchOperation
BatchOperation ==
    [kind : PutKinds, key : Keys, value : Values]
        \cup [kind : DeleteKinds, key : Keys]

IsPut(op) == op.kind \in PutKinds

\* What a call of n operations takes from the run's budget: its operations, and
\* one for an empty batch.
Weight(n) == IF n = 0 THEN 1 ELSE n

\* The column family each arm of the match writes to and reads from.
cf_of(op) ==
    CASE op.kind \in {"Put", "Delete"} -> DEFAULT_CF
      [] op.kind \in {"PutAux", "DeleteAux"} -> AUX_CF_NAME
      [] op.kind \in {"PutRoot", "DeleteRoot"} -> ROOTS_CF_NAME
      [] op.kind \in {"PutMeta", "DeleteMeta"} -> META_CF_NAME

\* StorageBatch: the batches of n operations, in submission order.
StorageBatch(n) == [1..n -> BatchOperation]

\* OperationCost::default()
OperationCostDefault ==
    [seek_count |-> 0, storage_written_bytes |-> 0,
     storage_loaded_bytes |-> 0, storage_freed_bytes |-> 0,
     hash_node_calls |-> 0]

EmptyDb == [cf \in CFs |-> [k \in Keys |-> None]]

\* A transaction's write set: per key untouched (<<>>), <<"put", v>> or <<"delete">>.
EmptyWrites == [cf \in CFs |-> [k \in Keys |-> <<>>]]

NoTx == [active |-> FALSE, writes |-> EmptyWrites, savepoints |-> <<>>]

\* An injected backend failure: the operation of the batch at which the backend
\* returns Err, and which backend call it is.
NoFail == [at |-> 0, stage |-> "none"]

\* self.db.get_cf(cf, key): reads the committed database only.
db_get(d, cf, key) == d[cf][key]

\* transaction.get_cf(cf, key): the transaction's own writes first.
tx_get(t, d, cf, key) ==
    LET w == t.writes[cf][key]
    IN  IF w = <<>> THEN d[cf][key]
        ELSE IF w[1] = "put" THEN Some(w[2]) ELSE None

\* (mutant) a key without a value is counted as one byte.
value_len_of_absent_as_one(opt) == IF opt = None THEN 1 ELSE Len(opt[1])

\* .map(|x| x.len()).unwrap_or(0)
value_len_of(opt) == IF opt = None THEN 0 ELSE Len(opt[1])

\* (mutant) a put counted by its value alone.
put_bytes_value_only(op) == Len(op.value)

\* key.len() + value.len(), what a put adds to pending_storage_written_bytes.
put_bytes(op) == Len(op.key) + Len(op.value)

\* (mutant) the pending counters join the cost of a failed call.
cost_return_on_error_adds_pending(st) ==
    [st.cost EXCEPT
        !.storage_written_bytes = @ + st.pending_storage_written_bytes,
        !.storage_freed_bytes = @ + st.pending_storage_freed_bytes]

\* cost_return_on_error_no_add!(&cost, ..) and the transactional early return:
\* the cost handed back with an Err is `cost` as it stands, without the pending
\* counters of the loop state st.
cost_return_on_error_no_add(st) == st.cost

\* The write one batch operation makes to a map cf -> key -> Option<value>.
apply_op(d, op) ==
    [d EXCEPT ![cf_of(op)][op.key] = IF IsPut(op) THEN Some(op.value) ELSE None]

RECURSIVE apply_ops(_, _)
apply_ops(d, ops) ==
    IF ops = <<>> THEN d ELSE apply_ops(apply_op(d, Head(ops)), Tail(ops))

\* (mutant) the staged operations are applied last first.
db_write_reversed(d, db_batch) ==
    apply_ops(d, [i \in 1..Len(db_batch) |-> db_batch[Len(db_batch) + 1 - i]])

\* self.db.write(db_batch): the staged operations, in order, in one write.
db_write(d, db_batch) == apply_ops(d, db_batch)

\* transaction.put_cf / transaction.delete_cf
tx_write(t, op) ==
    [t EXCEPT !.writes[cf_of(op)][op.key] =
        IF IsPut(op) THEN <<"put", op.value>> ELSE <<"delete">>]

\* transaction.set_savepoint()
set_savepoint(t) == [t EXCEPT !.savepoints = Append(@, t.writes)]

\* (mutant) the savepoint is popped and the writes made since are kept.
rollback_to_savepoint_keeps_writes(t) ==
    [ok |-> TRUE,
     tx |-> [t EXCEPT !.savepoints = SubSeq(@, 1, Len(@) - 1)]]

\* transaction.rollback_to_savepoint(): Err when there is no savepoint.
rollback_to_savepoint(t) ==
    IF t.savepoints = <<>>
    THEN [ok |-> FALSE, tx |-> t]
    ELSE [ok |-> TRUE,
          tx |-> [t EXCEPT !.writes = t.savepoints[Len(t.savepoints)],
                           !.savepoints = SubSeq(@, 1, Len(@) - 1)]]

\* (mutant) rollback() taken as a rollback to the most recent savepoint.
rollback_to_last_savepoint(t) ==
    IF t.savepoints = <<>> THEN t ELSE rollback_to_savepoint(t).tx

\* transaction.rollback(): every write of the transaction and every savepoint
\* is dropped; the transaction stays open.
rollback(t) == [t EXCEPT !.writes = EmptyWrites, !.savepoints = <<>>]

\* What a read through the transaction sees, for every key.
TxView(t, d) == [cf \in CFs |-> [k \in Keys |-> tx_get(t, d, cf, k)]]

----------------------------------------------------------------------------
(* commit_multi_context_batch *)

\* The for loop over the batch, from operation i on. st is the loop's state:
\* db_batch, cost, the two pending counters, and whether it returned early.
RECURSIVE stage_ops(_, _, _, _, _)
stage_ops(d, batch, fail, i, st) ==
    IF i > Len(batch) THEN st
    ELSE
      LET op == batch[i]
      IN  IF IsPut(op)
          THEN stage_ops(d, batch, fail, i + 1,
                 [st EXCEPT !.db_batch = Append(@, op),
                            !.pending_storage_written_bytes =
                                @ + put_bytes(op)])
          ELSE
            LET st1 == [st EXCEPT !.db_batch = Append(@, op),
                                  !.cost.seek_count = @ + 1]
            IN  IF fail.at = i /\ fail.stage = "get"
                THEN [st1 EXCEPT !.err = TRUE]
                ELSE
                  LET value_len == value_len_of(db_get(d, cf_of(op), op.key))
                  IN  stage_ops(d, batch, fail, i + 1,
                        [st1 EXCEPT !.cost.storage_loaded_bytes = @ + value_len,
                                    !.pending_storage_freed_bytes =
                                        @ + Len(op.key) + value_len])

\* The whole call: [ok, cost, db].
commit_multi_context_batch(d, batch, fail) ==
    LET st0 == [db_batch |-> <<>>, cost |-> OperationCostDefault,
                pending_storage_written_bytes |-> 0,
                pending_storage_freed_bytes |-> 0, err |-> FALSE]
        st == stage_ops(d, batch, fail, 1, st0)
    IN  IF st.err
        THEN [ok |-> FALSE, cost |-> cost_return_on_error_no_add(st), db |-> d]
        ELSE IF fail.stage = "write"
        THEN [ok |-> FALSE, cost |-> cost_return_on_error_no_add(st), db |-> d]
        ELSE [ok |-> TRUE,
              cost |-> [st.cost EXCEPT
                  !.storage_written_bytes = @ + st.pending_storage_written_bytes,
                  !.storage_freed_bytes = @ + st.pending_storage_freed_bytes],
              db |-> db_write(d, st.db_batch)]

\* The backend failures the call can meet: a value-size lookup of a delete, or
\* the final write.
Fails(batch) ==
    {NoFail}
        \cup {[at |-> i, stage |-> "get"] :
                i \in {j \in 1..Len(batch) : ~IsPut(batch[j])}}
        \cup {[at |-> Len(batch) + 1, stage |-> "write"]}

----------------------------------------------------------------------------
(* commit_multi_context_batch_with_transaction *)

\* The try_for_each closure, from operation i on. st is what the closure
\* captures: the transaction, cost, the two pending counters; err is set when
\* the closure returned Err, which ends the iteration.
RECURSIVE tx_ops(_, _, _, _, _)
tx_ops(d, batch, fail, i, st) ==
    IF i > Len(batch) THEN st
    ELSE
      LET op == batch[i]
      IN  IF IsPut(op)
          THEN
            LET st1 == [st EXCEPT !.pending_storage_written_bytes =
                                      @ + put_bytes(op)]
            IN  IF fail.at = i /\ fail.stage = "put"
                THEN [st1 EXCEPT !.err = TRUE]
                ELSE tx_ops(d, batch, fail, i + 1,
                            [st1 EXCEPT !.tx = tx_write(@, op)])
          ELSE
            LET st1 == [st EXCEPT !.cost.seek_count = @ + 1]
            IN  IF fail.at = i /\ fail.stage = "get"
                THEN [st1 EXCEPT !.err = TRUE]
                ELSE
                  LET value_len == value_len_of(db_get(d, cf_of(op), op.key))
                      st2 == [st1 EXCEPT
                                !.cost.storage_loaded_bytes = @ + value_len,
                                !.pending_storage_freed_bytes =
                                    @ + Len(op.key) + value_len]
                  IN  IF fail.at = i /\ fail.stage = "delete"
                      THEN [st2 EXCEPT !.err = TRUE]
                      ELSE tx_ops(d, batch, fail, i + 1,
                                  [st2 EXCEPT !.tx = tx_write(@, op)])

\* The whole call: [ok, cost, tx].
commit_multi_context_batch_with_transaction(d, t, batch, fail) ==
    LET st0 == [tx |-> set_savepoint(t), cost |-> OperationCostDefault,
                pending_storage_written_bytes |-> 0,
                pending_storage_freed_bytes |-> 0, err |-> FALSE]
        st == tx_ops(d, batch, fail, 1, st0)
    IN  IF st.err
        THEN LET rb == rollback_to_savepoint(st.tx)
             IN  [ok |-> FALSE, cost |-> cost_return_on_error_no_add(st), tx |-> rb.tx]
        ELSE [ok |-> TRUE,
              cost |-> [st.cost EXCEPT
                  !.storage_written_bytes = @ + st.pending_storage_written_bytes,
                  !.storage_freed_bytes = @ + st.pending_storage_freed_bytes],
              tx |-> st.tx]

\* The backend failures the call can meet: any put, any value-size lookup, any
\* delete.
TxFails(batch) ==
    {NoFail}
        \cup {[at |-> i, stage |-> "put"] :
                i \in {j \in 1..Len(batch) : IsPut(batch[j])}}
        \cup {[at |-> i, stage |-> s] :
                i \in {j \in 1..Len(batch) : ~IsPut(batch[j])},
                s \in {"get", "delete"}}

----------------------------------------------------------------------------
(* The storage state machine *)

IdlePrefix ==
    /\ path = <<>>
    /\ host = [endian |-> "little", pointer_width |-> 8]
    /\ prefix = None

IdleLink ==
    /\ link = None
    /\ build = "debug"
    /\ out = [encoded |-> None, length |-> None]
    /\ res = [fn |-> "none"]

IdleGrove ==
    /\ grove = None
    /\ gop = [fn |-> "none"]

IdleMerk ==
    /\ merk_state = None
    /\ mres = [fn |-> "none"]

\* The databases default_rocksdb_with_path opens: a fresh one, or an existing
\* one holding a value under every key of every column family.
FullDb == [cf \in CFs |-> [k \in Keys |-> Some(<<7>>)]]
InitDbs == {EmptyDb, FullDb}

IdleStorage ==
    /\ db = EmptyDb
    /\ tx = NoTx
    /\ call = [fn |-> "open", batch |-> <<>>, fail |-> NoFail]
    /\ ret = [ok |-> TRUE, cost |-> OperationCostDefault]
    /\ used = 0

\* default_rocksdb_with_path: the database as opened, no transaction.
Init ==
    /\ db \in InitDbs
    /\ tx = NoTx
    /\ call = [fn |-> "open", batch |-> <<>>, fail |-> NoFail]
    /\ ret = [ok |-> TRUE, cost |-> OperationCostDefault]
    /\ used = 0
    /\ IdlePrefix
    /\ IdleLink
    /\ IdleGrove
    /\ IdleMerk

StartTransaction ==
    /\ ~tx.active
    /\ tx' = [NoTx EXCEPT !.active = TRUE]
    /\ call' = [fn |-> "start_transaction", batch |-> <<>>, fail |-> NoFail]
    /\ ret' = [ok |-> TRUE, cost |-> OperationCostDefault]
    /\ UNCHANGED <<db, used>>

\* transaction.commit(): the write set reaches the database, or the commit
\* fails (an optimistic conflict) and nothing does; the transaction is consumed.
CommitTransaction ==
    /\ tx.active
    /\ \E committed \in BOOLEAN :
        /\ db' = IF committed THEN TxView(tx, db) ELSE db
        /\ ret' = [ok |-> committed, cost |-> OperationCostDefault]
    /\ tx' = NoTx
    /\ call' = [fn |-> "commit_transaction", batch |-> <<>>, fail |-> NoFail]
    /\ UNCHANGED used

\* rollback_transaction: transaction.rollback(). The call record keeps the
\* write set the transaction held when it was called.
RollbackTransaction ==
    /\ tx.active
    /\ tx' = rollback(tx)
    /\ call' = [fn |-> "rollback_transaction", batch |-> <<>>, fail |-> NoFail,
                held |-> tx.writes]
    /\ ret' = [ok |-> TRUE, cost |-> OperationCostDefault]
    /\ UNCHANGED <<db, used>>

CommitMultiContextBatch ==
    \E n \in 0..MaxBatchLen :
      /\ used + Weight(n) <= MaxOps
      /\ used' = used + Weight(n)
      /\ \E batch \in StorageBatch(n) : \E fail \in Fails(batch) :
           LET r == commit_multi_context_batch(db, batch, fail)
           IN  /\ db' = r.db
               /\ ret' = [ok |-> r.ok, cost |-> r.cost]
               /\ call' = [fn |-> "commit_multi_context_batch",
                           batch |-> batch, fail |-> fail]
      /\ UNCHANGED tx

CommitMultiContextBatchWithTransaction ==
    /\ tx.active
    /\ \E n \in 0..MaxBatchLen :
      /\ used + Weight(n) <= MaxOps
      /\ used' = used + Weight(n)
      /\ \E batch \in StorageBatch(n) : \E fail \in TxFails(batch) :
           LET r == commit_multi_context_batch_with_transaction(db, tx, batch, fail)
           IN  /\ tx' = r.tx
               /\ ret' = [ok |-> r.ok, cost |-> r.cost]
               /\ call' = [fn |-> "commit_multi_context_batch_with_transaction",
                           batch |-> batch, fail |-> fail]
      /\ UNCHANGED db

Next ==
    /\ \/ StartTransaction
       \/ CommitTransaction
       \/ RollbackTransaction
       \/ CommitMultiContextBatch
       \/ CommitMultiContextBatchWithTransaction
    /\ UNCHANGED <<prefixVars, linkVars, groveVars, merkVars>>

Spec == Init /\ [][Next]_vars

----------------------------------------------------------------------------
(* Claims about the batch commits *)

NonTxFn == "commit_multi_context_batch"
TxFn == "commit_multi_context_batch_with_transaction"
CommitFns == {NonTxFn, TxFn}

DeleteIndexes(batch) == {i \in 1..Len(batch) : ~IsPut(batch[i])}
PutIndexes(batch) == {i \in 1..Len(batch) : IsPut(batch[i])}

RECURSIVE SumOver(_, _)
SumOver(S, f) ==
    IF S = {} THEN 0
    ELSE LET x == CHOOSE y \in S : TRUE IN f[x] + SumOver(S \ {x}, f)

\* The value under the key of batch[i] in its column family once the
\* operations before batch[i] have taken effect on `view`.
ValueAtDelete(view, batch, i) ==
    apply_ops(view, SubSeq(batch, 1, i - 1))[cf_of(batch[i])][batch[i].key]

\* C1: commit_multi_context_batch_with_transaction is all-or-nothing inside the
\* transaction: when it returns Err the transaction holds exactly the writes it
\* held before the call (and reads through it see what they saw before); when
\* it returns Ok, reads through the transaction see every operation of the
\* batch applied, in order, on top of what they saw before.
C1_BatchAtomicInTransaction ==
    [][call'.fn = TxFn =>
        IF ret'.ok
        THEN TxView(tx', db') = apply_ops(TxView(tx, db), call'.batch)
        ELSE /\ tx'.writes = tx.writes
             /\ TxView(tx', db') = TxView(tx, db)]_vars

\* A failed transactional batch whose first operation, a put, had already been
\* written to the transaction when the second one failed.
C1_Witness ==
    /\ call.fn = TxFn
    /\ ~ret.ok
    /\ call.fail.at = 2
    /\ IsPut(call.batch[1])
    /\ tx.writes = EmptyWrites

\* C2: when either commit returns Err, the cost it returns has
\* storage_written_bytes = 0 and storage_freed_bytes = 0, seek_count is the
\* number of value-size lookups issued up to the failure, and
\* storage_loaded_bytes is the sum of the sizes the completed lookups read.
C2_ErrorCostDropsPending ==
    (call.fn \in CommitFns /\ ~ret.ok) =>
        LET batch == call.batch
            issued == {i \in DeleteIndexes(batch) : i <= call.fail.at}
            completed == {i \in issued :
                            i < call.fail.at \/ call.fail.stage = "delete"}
        IN  /\ ret.cost.storage_written_bytes = 0
            /\ ret.cost.storage_freed_bytes = 0
            /\ ret.cost.seek_count = Cardinality(issued)
            /\ ret.cost.storage_loaded_bytes =
                 SumOver(completed,
                         [i \in completed |->
                            value_len_of(db[cf_of(batch[i])][batch[i].key])])

\* A failed commit that had looked up two deletes and read a stored value.
C2_Witness ==
    /\ call.fn \in CommitFns
    /\ ~ret.ok
    /\ ret.cost.storage_loaded_bytes > 0
    /\ ret.cost.seek_count = 2

\* C3: when either commit returns Ok, storage_written_bytes is the sum of
\* len(key) + len(value) over the puts of the batch, and the puts add nothing to
\* seek_count (one per delete) or to storage_loaded_bytes (0 without deletes).
C3_WrittenBytesOfPuts ==
    (call.fn \in CommitFns /\ ret.ok) =>
        LET batch == call.batch
            puts == PutIndexes(batch)
        IN  /\ ret.cost.storage_written_bytes =
                 SumOver(puts, [i \in puts |->
                                  Len(batch[i].key) + Len(batch[i].value)])
            /\ ret.cost.seek_count = Cardinality(DeleteIndexes(batch))
            /\ (DeleteIndexes(batch) = {} => ret.cost.storage_loaded_bytes = 0)

\* A successful commit of two puts of different sizes, into different column
\* families.
C3_Witness ==
    /\ call.fn \in CommitFns
    /\ ret.ok
    /\ Len(call.batch) = 2
    /\ PutIndexes(call.batch) = {1, 2}
    /\ cf_of(call.batch[1]) # cf_of(call.batch[2])
    /\ Len(call.batch[1].value) # Len(call.batch[2].value)

\* C4: for every delete of a successfully committed batch the commit counts
\* one seek, adds len(value) to storage_loaded_bytes and len(key) + len(value)
\* to storage_freed_bytes, value being what the key holds in the operation's
\* column family when the delete takes effect.
C4_DeleteCostOfRemovedValue ==
    [][(call'.fn \in CommitFns /\ ret'.ok) =>
        LET batch == call'.batch
            view == IF call'.fn = TxFn THEN TxView(tx, db) ELSE db
            dels == DeleteIndexes(batch)
            removed == [i \in dels |->
                          value_len_of(ValueAtDelete(view, batch, i))]
        IN  /\ ret'.cost.seek_count = Cardinality(dels)
            /\ ret'.cost.storage_loaded_bytes = SumOver(dels, removed)
            /\ ret'.cost.storage_freed_bytes =
                 SumOver(dels, [i \in dels |->
                                  Len(batch[i].key) + removed[i]])]_vars

\* C5: in the transactional commit the value size read for a delete of key k is
\* the size of the value the transaction holds for k at that point, written
\* earlier in the transaction or earlier in the batch.
C5_DeleteReadsTransaction ==
    [][(call'.fn = TxFn /\ ret'.ok /\ Len(call'.batch) >= 1
            /\ ~IsPut(call'.batch[Len(call'.batch)])
            /\ PutIndexes(call'.batch) = 1..(Len(call'.batch) - 1)) =>
        LET batch == call'.batch
            last == Len(batch)
        IN  ret'.cost.storage_loaded_bytes =
                value_len_of(ValueAtDelete(TxView(tx, db), batch, last))]_vars

\* Field-wise sum of two costs.
CostAdd(a, b) ==
    [seek_count |-> a.seek_count + b.seek_count,
     storage_written_bytes |-> a.storage_written_bytes + b.storage_written_bytes,
     storage_loaded_bytes |-> a.storage_loaded_bytes + b.storage_loaded_bytes,
     storage_freed_bytes |-> a.storage_freed_bytes + b.storage_freed_bytes,
     hash_node_calls |-> a.hash_node_calls + b.hash_node_calls]

\* C6: the cost of committing a batch B in one commit_multi_context_batch call
\* is the field-wise sum of the costs of committing B1 and then B2, from the
\* same database, for every split B = B1 followed by B2.
C6_CostAdditive ==
    [][(call'.fn = NonTxFn /\ ret'.ok) =>
        \A n \in 0..Len(call'.batch) :
            LET B1 == SubSeq(call'.batch, 1, n)
                B2 == SubSeq(call'.batch, n + 1, Len(call'.batch))
                r1 == commit_multi_context_batch(db, B1, NoFail)
                r2 == commit_multi_context_batch(r1.db, B2, NoFail)
            IN  ret'.cost = CostAdd(r1.cost, r2.cost)]_vars

C26_SavepointStackRestored ==
    [][(call'.fn = TxFn /\ ret'.ok) => tx'.savepoints = tx.savepoints]_vars

\* The operations of a batch on key k of column family cf.
OpsOn(batch, cf, k) ==
    {i \in 1..Len(batch) : cf_of(batch[i]) = cf /\ batch[i].key = k}

\* C27: commit_multi_context_batch leaves the database unchanged in all four
\* column families when it returns Err (a value-size lookup or the write
\* failed); when it returns Ok every key holds what the last operation of the
\* batch on it left, and the other keys are unchanged.
C27_NonTxWritesOnce ==
    [][call'.fn = NonTxFn =>
        IF ~ret'.ok THEN db' = db
        ELSE \A cf \in CFs, k \in Keys :
               LET on == OpsOn(call'.batch, cf, k)
                   last == CHOOSE i \in on : \A j \in on : j <= i
               IN  db'[cf][k] =
                     IF on = {} THEN db[cf][k]
                     ELSE IF IsPut(call'.batch[last])
                     THEN Some(call'.batch[last].value)
                     ELSE None]_vars

\* The lookup of the second operation failed after a put was staged, and the
\* database does not hold the put.
C27_Witness ==
    /\ call.fn = NonTxFn
    /\ ~ret.ok
    /\ call.fail = [at |-> 2, stage |-> "get"]
    /\ IsPut(call.batch[1])
    /\ db[cf_of(call.batch[1])][call.batch[1].key] # Some(call.batch[1].value)

\* C28: a commit whose deletes are all of keys absent from their column
\* family of the database returns Ok (no backend failure given) and counts one
\* seek per delete, no loaded byte, and len(key) freed bytes per delete.
C28_DeleteOfAbsentKey ==
    [][(call'.fn \in CommitFns /\ call'.fail = NoFail
            /\ DeleteIndexes(call'.batch) # {}
            /\ \A i \in DeleteIndexes(call'.batch) :
                  db[cf_of(call'.batch[i])][call'.batch[i].key] = None) =>
        LET dels == DeleteIndexes(call'.batch)
        IN  /\ ret'.ok
            /\ ret'.cost.seek_count = Cardinality(dels)
            /\ ret'.cost.storage_loaded_bytes = 0
            /\ ret'.cost.storage_freed_bytes =
                 SumOver(dels, [i \in dels |-> Len(call'.batch[i].key)])]_vars

\* A committed batch of one delete that freed the two bytes of its key and
\* loaded nothing, on a database that does not hold the key.
C28_Witness ==
    /\ call.fn = NonTxFn
    /\ ret.ok
    /\ Len(call.batch) = 1
    /\ ~IsPut(call.batch[1])
    /\ ret.cost.storage_loaded_bytes = 0
    /\ ret.cost.storage_freed_bytes = 2
    /\ db = EmptyDb

----------------------------------------------------------------------------
(* build_prefix *)

PathBytes == {97, 98}     \* b'a', b'b'

Segments == UNION {[1..n -> PathBytes] : n \in 0..MaxPathBytes}

Paths ==
    {p \in UNION {[1..n -> Segments] : n \in 0..MaxSegments} :
        Len(Concat(p)) <= MaxPathBytes}

\* The targets the crate compiles for: byte order and the width of usize.
Hosts == [endian : {"little", "big"}, pointer_width : {4, 8}]

RECURSIVE Reverse(_)
Reverse(s) == IF s = <<>> THEN <<>> ELSE Append(Reverse(Tail(s)), Head(s))

\* usize::to_le_bytes on a target whose usize has `width` bytes.
RECURSIVE to_le_bytes(_, _)
to_le_bytes(n, width) ==
    IF width = 0 THEN <<>>
    ELSE <<n % 256>> \o to_le_bytes(n \div 256, width - 1)

\* usize::to_ne_bytes: the bytes in the target's own order.
to_ne_bytes(n, h) ==
    IF h.endian = "little"
    THEN to_le_bytes(n, h.pointer_width)
    ELSE Reverse(to_le_bytes(n, h.pointer_width))

\* The for loop of build_prefix from segment i on; acc is (segments_count, res,
\* lengthes).
RECURSIVE collect_segments(_, _, _, _)
collect_segments(p, h, i, acc) ==
    IF i > Len(p) THEN acc
    ELSE collect_segments(p, h, i + 1,
           [segments_count |-> acc.segments_count + 1,
            res |-> acc.res \o p[i],
            lengthes |-> acc.lengthes \o to_ne_bytes(Len(p[i]), h)])

\* (mutant) the segment lengths are left out of the hash input.
hash_input_without_lengthes(p, h) ==
    LET acc == collect_segments(p, h, 1,
                 [segments_count |-> 0, res |-> <<>>, lengthes |-> <<>>])
    IN  acc.res \o to_ne_bytes(acc.segments_count, h)

\* What build_prefix hands to blake3::hash: the segments, the segment count,
\* the segment lengths.
hash_input(p, h) ==
    LET acc == collect_segments(p, h, 1,
                 [segments_count |-> 0, res |-> <<>>, lengthes |-> <<>>])
    IN  (acc.res \o to_ne_bytes(acc.segments_count, h)) \o acc.lengthes

\* blake3::hash, taken as collision-free: the digest stands for its input.
blake3_hash(bytes) == <<"blake3", bytes>>

\* OperationCost::with_hash_node_calls(n)
with_hash_node_calls(n) == [OperationCostDefault EXCEPT !.hash_node_calls = n]

build_prefix(p, h) ==
    [input |-> hash_input(p, h),
     value |-> blake3_hash(hash_input(p, h)),
     cost |-> with_hash_node_calls(1)]

InitPrefix ==
    /\ path \in Paths
    /\ host \in Hosts
    /\ prefix = None
    /\ IdleStorage
    /\ IdleLink
    /\ IdleGrove
    /\ IdleMerk

BuildPrefix ==
    /\ prefix = None
    /\ prefix' = Some(build_prefix(path, host))
    /\ UNCHANGED <<path, host>>

NextPrefix == BuildPrefix /\ UNCHANGED <<storageVars, linkVars, groveVars, merkVars>>

SpecPrefix == InitPrefix /\ [][NextPrefix]_vars

\* C7: on a given target, two paths are fed to the hash as the same byte string
\* only if they are the same path; [aa, b] and [a, ab] are told apart.
C7_PrefixInputInjective ==
    prefix # None =>
        /\ \A q \in Paths :
              build_prefix(q, host).input = prefix[1].input => q = path
        /\ \A q \in Paths :
              build_prefix(q, host).value = prefix[1].value => q = path

\* build_prefix has run on [aa, b], whose segments concatenate as those of
\* [a, ab] do.
C7_Witness ==
    /\ prefix # None
    /\ path = << <<97, 97>>, <<98>> >>
    /\ << <<97>>, <<97, 98>> >> \in Paths

\* C8: on every target the hash input holds the segment count and the segment
\* lengths little-endian (so targets of either byte order compute the same
\* prefix).
C8_PrefixLittleEndian ==
    prefix # None =>
        prefix[1].input =
            (Concat(path) \o to_le_bytes(Len(path), host.pointer_width))
               \o Concat([i \in 1..Len(path) |->
                            to_le_bytes(Len(path[i]), host.pointer_width)])

----------------------------------------------------------------------------
(* Link and its encoding *)

HASH_LENGTH == 32

\* A u64 is held as four 16-bit limbs, most significant first.
U64Samples ==
    { <<0, 0, 0, 50>>,
      <<258, 772, 1286, 1800>>,           \* 0x0102030405060708
      <<65535, 65535, 65535, 65535>> }    \* u64::MAX

\* (mutant) the sum written least significant byte first.
u64_to_le_bytes(x) ==
    Concat([i \in 1..4 |-> <<x[5 - i] % 256, x[5 - i] \div 256>>])

\* u64::to_be_bytes
u64_to_be_bytes(x) ==
    Concat([i \in 1..4 |-> <<x[i] \div 256, x[i] % 256>>])

KeyOfLen(n) == [i \in 1..n |-> (i * 7) % 256]
LinkKeys == {KeyOfLen(n) : n \in 0..MaxKeyLen}

Hashes == {[i \in 1..HASH_LENGTH |-> 55], [i \in 1..HASH_LENGTH |-> i]}
ChildHeights == {<<0, 0>>, <<123, 124>>}
Sums == {None} \cup {Some(x) : x \in U64Samples}

\* Tree, as far as a link reads it: its key.
Trees == [key : LinkKeys]

\* enum Link
Links ==
    [variant : {"Reference"}, hash : Hashes, child_heights : ChildHeights,
     key : LinkKeys, sum : Sums]
      \cup [variant : {"Modified"}, pending_writes : {1},
            child_heights : ChildHeights, tree : Trees]
      \cup [variant : {"Uncommitted", "Loaded"}, hash : Hashes,
            child_heights : ChildHeights, tree : Trees, sum : Sums]

\* Link::key
link_key(l) == IF l.variant = "Reference" THEN l.key ELSE l.tree.key

Panic == [status |-> "panic"]
Ok(v) == [status |-> "ok", value |-> v]

\* `x as u8`
as_u8(x) == x % 256

bool_as_u8(b) == IF b THEN 1 ELSE 0

\* Link::encode_into: the bytes written to `out`, or a panic. debug_assert! is
\* checked in a debug build only.
encode_into(l, b) ==
    IF l.variant = "Modified" THEN Panic
    ELSE
      LET key == link_key(l)
      IN  IF b = "debug" /\ ~(Len(key) < 256) THEN Panic
          ELSE Ok(((((<<as_u8(Len(key))>> \o key)
                       \o l.hash)
                       \o <<l.child_heights[1], l.child_heights[2]>>)
                       \o <<bool_as_u8(l.sum # None)>>)
                       \o (IF l.sum # None THEN u64_to_be_bytes(l.sum[1])
                           ELSE <<>>))

\* (mutant) one byte more than encode_into writes.
encoding_length_one_more(l, b) ==
    IF b = "debug" /\ ~(Len(link_key(l)) < 256) THEN Panic
    ELSE IF l.variant = "Modified" THEN Panic
    ELSE Ok(1 + Len(link_key(l)) + 32 + 2 + 1 + 1
              + (bool_as_u8(l.sum # None) * 8))

\* (mutant) encoding_length without the Modified arm.
encoding_length_of_modified(l, b) ==
    IF b = "debug" /\ ~(Len(link_key(l)) < 256) THEN Panic
    ELSE Ok(1 + Len(link_key(l)) + 32 + 2 + 1
              + (bool_as_u8(l.variant # "Modified" /\ l.sum # None) * 8))

\* Link::encoding_length
encoding_length(l, b) ==
    IF b = "debug" /\ ~(Len(link_key(l)) < 256) THEN Panic
    ELSE IF l.variant = "Modified" THEN Panic
    ELSE Ok(1 + Len(link_key(l)) + 32 + 2 + 1
              + (bool_as_u8(l.sum # None) * 8))

\* An Err of ed::Result (the reader ran out of input).
Err == [status |-> "err"]

\* (mutant) the sum read least significant byte first.
u64_from_le_bytes(b) == [i \in 1..4 |-> b[10 - 2 * i] * 256 + b[9 - 2 * i]]

\* input.read_u64::<BigEndian>()
u64_from_be_bytes(b) == [i \in 1..4 |-> b[2 * i - 1] * 256 + b[2 * i]]

\* Link::default_reference
default_reference ==
    [variant |-> "Reference", hash |-> [i \in 1..HASH_LENGTH |-> 0],
     child_heights |-> <<0, 0>>, key |-> <<>>, sum |-> None]

\* Link::decode, through decode_into on default_reference(): the fields are
\* read off `input` in order; a read past its end is an Err; what follows the
\* link in `input` is left unread.
decode(input) ==
    IF Len(input) < 1 THEN Err
    ELSE
      LET length == input[1]
          hash_at == 1 + length
          heights_at == hash_at + HASH_LENGTH
          sum_at == heights_at + 3
      IN  IF Len(input) < sum_at THEN Err
          ELSE
            LET has_sum == input[sum_at] # 0
            IN  IF has_sum /\ Len(input) < sum_at + 8 THEN Err
                ELSE Ok([default_reference EXCEPT
                           !.key = SubSeq(input, 2, hash_at),
                           !.hash = SubSeq(input, hash_at + 1, heights_at),
                           !.child_heights =
                               <<input[heights_at + 1], input[heights_at + 2]>>,
                           !.sum = IF has_sum
                                   THEN Some(u64_from_be_bytes(
                                          SubSeq(input, sum_at + 1, sum_at + 8)))
                                   ELSE None])

\* (mutant) a stored hash is handed out for a Modified link too.
link_hash_of_any(l) ==
    IF l.variant = "Modified" THEN Ok([i \in 1..HASH_LENGTH |-> 0])
    ELSE Ok(l.hash)

\* Link::hash
link_hash(l) == IF l.variant = "Modified" THEN Panic ELSE Ok(l.hash)

\* Link::sum
link_sum(l) == IF l.variant = "Modified" THEN Panic ELSE Ok(l.sum)

\* (mutant) an Uncommitted link is pruned like a Loaded one.
into_reference_of_uncommitted(l) ==
    CASE l.variant = "Reference" -> Ok(l)
      [] l.variant = "Modified" -> Panic
      [] OTHER ->
           Ok([variant |-> "Reference", hash |-> l.hash, sum |-> l.sum,
               child_heights |-> l.child_heights, key |-> l.tree.key])

\* Link::into_reference
into_reference(l) ==
    CASE l.variant = "Reference" -> Ok(l)
      [] l.variant = "Modified" -> Panic
      [] l.variant = "Uncommitted" -> Panic
      [] l.variant = "Loaded" ->
           Ok([variant |-> "Reference", hash |-> l.hash, sum |-> l.sum,
               child_heights |-> l.child_heights, key |-> l.tree.key])

NoOut == [encoded |-> None, length |-> None]
NoRes == [fn |-> "none"]

InitLink ==
    /\ link \in {Some(l) : l \in Links}
    /\ build \in {"debug", "release"}
    /\ out = NoOut
    /\ res = NoRes
    /\ IdleStorage
    /\ IdlePrefix
    /\ IdleGrove
    /\ IdleMerk

EncodeInto ==
    /\ out.encoded = None
    /\ out' = [out EXCEPT !.encoded = Some(encode_into(link[1], build))]
    /\ UNCHANGED <<link, build, res>>

EncodingLength ==
    /\ out.length = None
    /\ out' = [out EXCEPT !.length = Some(encoding_length(link[1], build))]
    /\ UNCHANGED <<link, build, res>>

\* Link::decode on the bytes encode_into wrote.
Decode ==
    /\ res = NoRes
    /\ out.encoded # None
    /\ out.encoded[1].status = "ok"
    /\ res' = [fn |-> "decode", value |-> decode(out.encoded[1].value)]
    /\ UNCHANGED <<link, build, out>>

LinkHash ==
    /\ res = NoRes
    /\ res' = [fn |-> "hash", value |-> link_hash(link[1])]
    /\ UNCHANGED <<link, build, out>>

LinkSum ==
    /\ res = NoRes
    /\ res' = [fn |-> "sum", value |-> link_sum(link[1])]
    /\ UNCHANGED <<link, build, out>>

IntoReference ==
    /\ res = NoRes
    /\ res' = [fn |-> "into_reference", value |-> into_reference(link[1])]
    /\ UNCHANGED <<link, build, out>>

NextLink ==
    /\ \/ EncodeInto
       \/ EncodingLength
       \/ Decode
       \/ LinkHash
       \/ LinkSum
       \/ IntoReference
    /\ UNCHANGED <<storageVars, prefixVars, groveVars, merkVars>>

SpecLink == InitLink /\ [][NextLink]_vars

\* The links C9 and C10 speak of: not Modified, key shorter than 256 bytes.
Encodable(l) == l.variant # "Modified" /\ Len(link_key(l)) < 256

\* Byte i (1..8) of a u64 written most significant byte first.
BeByte(x, i) ==
    IF i % 2 = 1 THEN x[(i + 1) \div 2] \div 256 ELSE x[i \div 2] % 256

\* u8 key_len, key, 32-byte hash, u8 left_h, u8 right_h, u8 has_sum, and the
\* sum as 8 bytes big-endian when there is one.
LinkLayout(l) ==
    LET key == link_key(l)
    IN  <<Len(key)>> \o key \o l.hash
          \o <<l.child_heights[1]>> \o <<l.child_heights[2]>>
          \o (IF l.sum = None THEN <<0>>
              ELSE <<1>> \o [i \in 1..8 |-> BeByte(l.sum[1], i)])

\* C9: for a Reference, Loaded or Uncommitted link with a key shorter than 256
\* bytes, encode_into writes exactly the layout above, and encoding_length
\* returns the number of bytes encode_into writes.
C9_LinkEncodingLayout ==
    Encodable(link[1]) =>
        /\ out.encoded # None =>
             /\ out.encoded[1] = Ok(LinkLayout(link[1]))
             /\ encoding_length(link[1], build) = Ok(Len(out.encoded[1].value))
        /\ out.length # None =>
             /\ out.length[1].status = "ok"
             /\ encode_into(link[1], build).status = "ok"
             /\ out.length[1].value = Len(encode_into(link[1], build).value)

\* Both calls have returned for a Loaded link with a 255-byte key and the sum
\* 0x0102030405060708.
C9_Witness ==
    /\ link[1].variant = "Loaded"
    /\ Len(link_key(link[1])) = 255
    /\ link[1].sum = Some(<<258, 772, 1286, 1800>>)
    /\ out.encoded # None
    /\ out.length # None

\* C10 as stated: a link without a sum encodes to 37 bytes plus its key.
C10_Overhead37 ==
    (Encodable(link[1]) /\ link[1].sum = None) =>
        /\ out.encoded # None =>
             Len(out.encoded[1].value) = 37 + Len(link_key(link[1]))
        /\ out.length # None =>
             out.length[1].value = 37 + Len(link_key(link[1]))

\* C10, amended: a link without a sum encodes to 36 bytes plus its key, for
\* every key shorter than 256 bytes.
C10_Overhead36 ==
    (Encodable(link[1]) /\ link[1].sum = None) =>
        /\ out.encoded # None =>
             /\ out.encoded[1].status = "ok"
             /\ Len(out.encoded[1].value) = 36 + Len(link_key(link[1]))
        /\ out.length # None =>
             out.length[1] = Ok(36 + Len(link_key(link[1])))

\* Both calls have returned for a Reference link without a sum and with a
\* 255-byte key.
C10_Witness ==
    /\ link[1].variant = "Reference"
    /\ link[1].sum = None
    /\ Len(link[1].key) = 255
    /\ out.encoded # None
    /\ out.length # None

\* The Reference link with the key, hash, child heights and sum of l.
AsReference(l) ==
    [variant |-> "Reference", hash |-> l.hash, sum |-> l.sum,
     child_heights |-> l.child_heights, key |-> link_key(l)]

\* C11 as stated: for a Reference, Loaded or Uncommitted link with a key
\* shorter than 256 bytes, decode(encode(link)) has the variant, key, hash,
\* child heights and sum of the link.
C11_RoundTripSameVariant ==
    (Encodable(link[1]) /\ res.fn = "decode") =>
        /\ res.value.status = "ok"
        /\ res.value.value.variant = link[1].variant
        /\ link_key(res.value.value) = link_key(link[1])
        /\ res.value.value.hash = link[1].hash
        /\ res.value.value.child_heights = link[1].child_heights
        /\ res.value.value.sum = link[1].sum

\* C11, amended: for such a link decode(encode(link)) is the Reference link
\* with the key, hash, child heights and sum of the link; it is the link itself
\* when the link is a Reference.
C11_RoundTripAsReference ==
    (Encodable(link[1]) /\ res.fn = "decode") =>
        /\ res.value = Ok(AsReference(link[1]))
        /\ (link[1].variant = "Reference" => res.value = Ok(link[1]))

\* The encoding of a Loaded link with a 255-byte key and the sum u64::MAX has
\* been decoded.
C11_Witness ==
    /\ res.fn = "decode"
    /\ link[1].variant = "Loaded"
    /\ Len(link_key(link[1])) = 255
    /\ link[1].sum = Some(<<65535, 65535, 65535, 65535>>)

\* C12: encode_into never returns Ok, and writes no bytes, for a link whose key
\* is 256 bytes or longer, whatever the build; so nothing decodes to a link
\* with a truncated key.
C12_LongKeyFailsToEncode ==
    (link # None /\ Len(link_key(link[1])) >= 256) =>
        /\ out.encoded # None => out.encoded[1].status # "ok"
        /\ res.fn # "decode"

\* C13: encode_into and encoding_length both panic on a Modified link, and
\* yield neither bytes nor a length.
C13_ModifiedNeverEncoded ==
    (link # None /\ link[1].variant = "Modified") =>
        /\ out.encoded # None => out.encoded[1] = Panic
        /\ out.length # None => out.length[1] = Panic
        /\ res.fn # "decode"

\* Both codec calls have been made on a Modified link with a short key, in a
\* release build.
C13_Witness ==
    /\ link[1].variant = "Modified"
    /\ build = "release"
    /\ Len(link_key(link[1])) = 3
    /\ out.encoded # None
    /\ out.length # None

\* C14: hash() and sum() return the stored hash and the stored sum for a
\* Reference, Uncommitted or Loaded link, and panic for a Modified link.
C14_HashAndSumDefined ==
    /\ res.fn = "hash" =>
         res.value = IF link[1].variant = "Modified" THEN Panic
                     ELSE Ok(link[1].hash)
    /\ res.fn = "sum" =>
         res.value = IF link[1].variant = "Modified" THEN Panic
                     ELSE Ok(link[1].sum)

\* hash() has been called on a Modified link.
C14_Witness ==
    /\ res.fn = "hash"
    /\ link[1].variant = "Modified"

\* C15: into_reference panics for a Modified and for an Uncommitted link,
\* returns a Reference link unchanged, and turns a Loaded link into the
\* Reference link with its hash, sum, child heights and key().
C15_IntoReferencePrunesPersisted ==
    res.fn = "into_reference" =>
        CASE link[1].variant \in {"Modified", "Uncommitted"} ->
               res.value = Panic
          [] link[1].variant = "Reference" -> res.value = Ok(link[1])
          [] link[1].variant = "Loaded" ->
               /\ res.value.status = "ok"
               /\ res.value.value.variant = "Reference"
               /\ res.value.value.hash = link[1].hash
               /\ res.value.value.sum = link[1].sum
               /\ res.value.value.child_heights = link[1].child_heights
               /\ link_key(res.value.value) = link_key(link[1])

\* into_reference has been called on a Loaded link that carries a sum.
C15_Witness ==
    /\ res.fn = "into_reference"
    /\ link[1].variant = "Loaded"
    /\ link[1].sum # None
    /\ Len(link_key(link[1])) > 0

----------------------------------------------------------------------------
(* Link: constructors, accessors and decode_into *)

\* The links the accessors are applied to: the four variants, an empty and a
\* three-byte key, and child heights from the whole range of u8, the ends
\* and the sign bit of the i8 cast included.
OpLinks ==
    LET keys == {KeyOfLen(0), KeyOfLen(3)}
        samples == {0, 1, 127, 128, 200, 255}
        heights == samples \X samples
        sums == {None, Some(<<258, 772, 1286, 1800>>)}
        hashes == {[i \in 1..HASH_LENGTH |-> 55]}
    IN  [variant : {"Reference"}, hash : hashes, child_heights : heights,
         key : keys, sum : sums]
          \cup [variant : {"Modified"}, pending_writes : {1, 4},
                child_heights : heights, tree : [key : keys]]
          \cup [variant : {"Uncommitted", "Loaded"}, hash : hashes,
                child_heights : heights, tree : [key : keys], sum : sums]

\* Tree, as far as from_modified_tree reads it: its key, the pending writes
\* of its two child links and the heights of its two children.
ModifiedTrees ==
    [key : {KeyOfLen(1), KeyOfLen(3)},
     pending_writes : {<<0, 0>>, <<1, 2>>, <<0, 3>>},
     child_heights : {<<0, 0>>, <<1, 2>>, <<2, 1>>}]

\* Tree::new(key, value, feature_type): a tree without children.
TreeNew(key) ==
    [key |-> key, pending_writes |-> <<0, 0>>, child_heights |-> <<0, 0>>]

\* tree.child_pending_writes(left)
child_pending_writes(tree, left) ==
    IF left THEN tree.pending_writes[1] ELSE tree.pending_writes[2]

\* tree.child_heights()
child_heights(tree) == tree.child_heights

\* (mutant) the link counts the tree's own write only.
from_modified_tree_counts_self_only(tree) ==
    [variant |-> "Modified", pending_writes |-> 1,
     child_heights |-> child_heights(tree), tree |-> tree]

\* Link::from_modified_tree
from_modified_tree(tree) ==
    LET pending_writes ==
          1 + child_pending_writes(tree, TRUE) + child_pending_writes(tree, FALSE)
    IN  [variant |-> "Modified", pending_writes |-> pending_writes,
         child_heights |-> child_heights(tree), tree |-> tree]

\* Link::maybe_from_modified_tree: maybe_tree.map(Self::from_modified_tree)
maybe_from_modified_tree(maybe_tree) ==
    IF maybe_tree = None THEN None ELSE Some(from_modified_tree(maybe_tree[1]))

\* Link::is_reference
is_reference(l) == l.variant = "Reference"

\* Link::is_modified
is_modified(l) == l.variant = "Modified"

\* Link::is_uncommitted
is_uncommitted(l) == l.variant = "Uncommitted"

\* (mutant) an Uncommitted link counts as stored too.
is_stored_or_uncommitted(l) == l.variant \in {"Loaded", "Uncommitted"}

\* Link::is_stored
is_stored(l) == l.variant = "Loaded"

\* Link::tree
link_tree(l) == IF l.variant = "Reference" THEN None ELSE Some(l.tree)

\* u8 as i8: the same bits read as two's complement.
as_i8(x) == IF x >= 128 THEN x - 256 ELSE x

\* Link::height: 1 + max(left_height, right_height) in u8. The sum passes
\* u8::MAX when a child height is 255: a panic where overflow checks are
\* compiled in (debug), the wrapped value otherwise (release).
height(l, b) ==
    LET left_height == l.child_heights[1]
        right_height == l.child_heights[2]
        max == IF left_height >= right_height THEN left_height ELSE right_height
    IN  IF 1 + max <= 255 THEN Ok(1 + max)
        ELSE IF b = "debug" THEN Panic
        ELSE Ok((1 + max) % 256)

\* Link::balance_factor: right_height as i8 - left_height as i8. The
\* difference of the two i8 leaves i8 for some pairs: a panic in debug, the
\* wrapped value in release.
balance_factor(l, b) ==
    LET left_height == l.child_heights[1]
        right_height == l.child_heights[2]
        d == as_i8(right_height) - as_i8(left_height)
    IN  IF d \in -128..127 THEN Ok(d)
        ELSE IF b = "debug" THEN Panic
        ELSE Ok(as_i8(d % 256))

\* (mutant) a target that is a Reference keeps its sum when the input has
\* none.
decode_into_keeps_sum(target, input) ==
    LET self == IF ~is_reference(target) THEN default_reference ELSE target
        d == decode(input)
    IN  IF d.status # "ok" THEN d
        ELSE Ok([d.value EXCEPT
                   !.sum = IF d.value.sum = None THEN self.sum ELSE @])

\* Link::decode_into: the target after the call, or Err (the target is then
\* left with the fields read so far). A target that is not a Reference is
\* replaced by default_reference(); the key is resized to the encoded
\* length and overwritten, and hash, child heights and sum are assigned.
decode_into(target, input) ==
    LET self == IF ~is_reference(target) THEN default_reference ELSE target
    IN  IF Len(input) < 1 THEN Err
        ELSE
          LET length == input[1]
              resized == [i \in 1..length |->
                            IF i <= Len(self.key) THEN self.key[i] ELSE 0]
              hash_at == 1 + length
              heights_at == hash_at + HASH_LENGTH
              sum_at == heights_at + 3
          IN  IF Len(input) < sum_at THEN Err
              ELSE
                LET key == [i \in 1..Len(resized) |-> input[1 + i]]
                    hash == SubSeq(input, hash_at + 1, heights_at)
                    has_sum == input[sum_at] # 0
                IN  IF has_sum /\ Len(input) < sum_at + 8 THEN Err
                    ELSE Ok([self EXCEPT
                               !.key = key,
                               !.hash = hash,
                               !.child_heights[1] = input[heights_at + 1],
                               !.child_heights[2] = input[heights_at + 2],
                               !.sum = IF has_sum
                                       THEN Some(u64_from_be_bytes(
                                              SubSeq(input, sum_at + 1,
                                                     sum_at + 8)))
                                       ELSE None])

\* Inputs of decode_into: the encodings of four references, one of them cut
\* short, and one followed by another byte.
DecodeInputs ==
    LET refs == [variant : {"Reference"}, hash : {[i \in 1..HASH_LENGTH |-> i]},
                 child_heights : {<<1, 2>>},
                 key : {KeyOfLen(0), KeyOfLen(2)},
                 sum : {None, Some(<<0, 0, 0, 50>>)}]
        full == {encode_into(l, "release").value : l \in refs}
    IN  full \cup {SubSeq(i, 1, Len(i) - 1) : i \in full}
             \cup {Append(i, 9) : i \in full}

InitLinkOps ==
    /\ link \in {Some(l) : l \in OpLinks}
    /\ build \in {"debug", "release"}
    /\ out = NoOut
    /\ res = NoRes
    /\ IdleStorage
    /\ IdlePrefix
    /\ IdleGrove
    /\ IdleMerk

FromModifiedTree ==
    /\ res = NoRes
    /\ \E tree \in ModifiedTrees \cup {TreeNew(KeyOfLen(1))} :
         res' = [fn |-> "from_modified_tree", tree |-> tree,
                 value |-> from_modified_tree(tree)]
    /\ UNCHANGED <<link, build, out>>

MaybeFromModifiedTree ==
    /\ res = NoRes
    /\ \E maybe_tree \in {None} \cup {Some(t) : t \in ModifiedTrees} :
         res' = [fn |-> "maybe_from_modified_tree", tree |-> maybe_tree,
                 value |-> maybe_from_modified_tree(maybe_tree)]
    /\ UNCHANGED <<link, build, out>>

IsReference ==
    /\ res = NoRes
    /\ res' = [fn |-> "is_reference", value |-> is_reference(link[1])]
    /\ UNCHANGED <<link, build, out>>

IsModified ==
    /\ res = NoRes
    /\ res' = [fn |-> "is_modified", value |-> is_modified(link[1])]
    /\ UNCHANGED <<link, build, out>>

IsUncommitted ==
    /\ res = NoRes
    /\ res' = [fn |-> "is_uncommitted", value |-> is_uncommitted(link[1])]
    /\ UNCHANGED <<link, build, out>>

IsStored ==
    /\ res = NoRes
    /\ res' = [fn |-> "is_stored", value |-> is_stored(link[1])]
    /\ UNCHANGED <<link, build, out>>

LinkTree ==
    /\ res = NoRes
    /\ res' = [fn |-> "tree", value |-> link_tree(link[1])]
    /\ UNCHANGED <<link, build, out>>

Height ==
    /\ res = NoRes
    /\ res' = [fn |-> "height", value |-> height(link[1], build)]
    /\ UNCHANGED <<link, build, out>>

BalanceFactor ==
    /\ res = NoRes
    /\ res' = [fn |-> "balance_factor",
               value |-> balance_factor(link[1], build)]
    /\ UNCHANGED <<link, build, out>>

\* decode_into with the link as the target.
DecodeInto ==
    /\ res = NoRes
    /\ \E input \in DecodeInputs :
         res' = [fn |-> "decode_into", input |-> input,
                 value |-> decode_into(link[1], input)]
    /\ UNCHANGED <<link, build, out>>

NextLinkOps ==
    /\ \/ FromModifiedTree
       \/ MaybeFromModifiedTree
       \/ IsReference
       \/ IsModified
       \/ IsUncommitted
       \/ IsStored
       \/ LinkTree
       \/ Height
       \/ BalanceFactor
       \/ DecodeInto
    /\ UNCHANGED <<storageVars, prefixVars, groveVars, merkVars>>

SpecLinkOps == InitLinkOps /\ [][NextLinkOps]_vars

\* C22: every link is in exactly one of the four states: each of
\* is_reference, is_modified, is_uncommitted, is_stored answers for its own
\* variant, exactly one of them is true of the link, tree() is None exactly
\* for a Reference, and the tree it returns otherwise has the key key()
\* returns.
C22_ExactlyOneState ==
    LET l == link[1]
    IN  link # None =>
          /\ Cardinality({p \in {<<1, is_reference(l)>>, <<2, is_modified(l)>>,
                                 <<3, is_uncommitted(l)>>, <<4, is_stored(l)>>} :
                            p[2]}) = 1
          /\ res.fn = "is_reference" => res.value = (l.variant = "Reference")
          /\ res.fn = "is_modified" => res.value = (l.variant = "Modified")
          /\ res.fn = "is_uncommitted" => res.value = (l.variant = "Uncommitted")
          /\ res.fn = "is_stored" => res.value = (l.variant = "Loaded")
          /\ res.fn = "tree" =>
               /\ (res.value = None) <=> is_reference(l)
               /\ res.value # None => res.value[1].key = link_key(l)

\* tree() has handed out the tree of an Uncommitted link with a three-byte key.
C22_Witness ==
    /\ res.fn = "tree"
    /\ link[1].variant = "Uncommitted"
    /\ res.value # None
    /\ Len(res.value[1].key) = 3

C29_HeightArithmetic ==
    LET left_height == link[1].child_heights[1]
        right_height == link[1].child_heights[2]
    IN  /\ res.fn = "balance_factor" =>
             res.value = Ok(right_height - left_height)
        /\ res.fn = "height" =>
             res.value = Ok(1 + IF left_height >= right_height
                                THEN left_height ELSE right_height)

\* C30: for every prior target and every input decode accepts, decode_into
\* leaves the target equal to decode(input): key, hash, child heights and sum
\* all come from the input.
C30_DecodeIntoIgnoresTarget ==
    (res.fn = "decode_into" /\ decode(res.input).status = "ok") =>
        res.value = decode(res.input)

\* decode_into of an input without a sum and with an empty key, into a
\* Reference that held a sum and a three-byte key.
C30_Witness ==
    /\ res.fn = "decode_into"
    /\ link[1].variant = "Reference"
    /\ link[1].sum # None
    /\ Len(link[1].key) = 3
    /\ res.value.status = "ok"
    /\ res.value.value.sum = None
    /\ res.value.value.key = <<>>

----------------------------------------------------------------------------
(* Merk: the AVL tree and its hashes *)

\* Op: Put(element) or Delete, with the key it is applied to. Keys are one
\* byte long and written as the byte (byte-lexicographic order is then the
\* order of the integers).
MerkOps ==
    [op : {"Put"}, key : 1..4, value : {7, 8}]
      \cup [op : {"Delete"}, key : 1..4]

\* Keys must be strictly sorted; duplicates are rejected.
strictly_sorted(batch) ==
    \A i \in 1..(Len(batch) - 1) : batch[i].key < batch[i + 1].key

\* The batches given to apply: every strictly sorted one, and two that are
\* not (a duplicate key, keys out of order).
MerkBatches ==
    {b \in UNION {[1..n -> MerkOps] : n \in 0..MaxApplyLen} : strictly_sorted(b)}
      \cup {<<[op |-> "Put", key |-> 2, value |-> 7],
              [op |-> "Put", key |-> 2, value |-> 8]>>,
            <<[op |-> "Put", key |-> 3, value |-> 7],
              [op |-> "Delete", key |-> 1]>>}

\* The height a node records for one of its children: 0 for no link,
\* link.height() otherwise.
child_height(maybe_link) ==
    IF maybe_link = None THEN 0 ELSE height(maybe_link[1], "release").value

\* The link to a child tree (or no link), with the heights of the child's
\* own children as the child records them.
link_to(maybe_tree) ==
    IF maybe_tree = None THEN None
    ELSE Some([variant |-> "Modified", pending_writes |-> 1,
               child_heights |-> <<child_height(maybe_tree[1].left),
                                   child_height(maybe_tree[1].right)>>,
               tree |-> maybe_tree[1]])

\* The child tree on one side, if any.
child(tree, left) ==
    LET l == IF left THEN tree.left ELSE tree.right
    IN  IF l = None THEN None ELSE Some(l[1].tree)

\* The tree with the child on one side replaced.
attach(tree, left, maybe_child) ==
    IF left THEN [tree EXCEPT !.left = link_to(maybe_child)]
    ELSE [tree EXCEPT !.right = link_to(maybe_child)]

\* The balance factor of a node: right height - left height.
tree_balance_factor(tree) ==
    child_height(tree.right) - child_height(tree.left)

\* A single rotation: the child on side `left` becomes the root, the tree
\* becomes its child on the other side and takes over the grandchild.
rotate(tree, left) ==
    LET c == child(tree, left)[1]
        grandchild == child(c, ~left)
    IN  attach(c, ~left, Some(attach(tree, left, grandchild)))

\* (mutant) rebalancing with single rotations only.
maybe_balance_single_only(tree) ==
    LET bf == tree_balance_factor(tree)
    IN  IF bf \in {-1, 0, 1} THEN tree ELSE rotate(tree, bf < 0)

\* Rebalancing of one node after a mutation below it: nothing inside
\* {-1, 0, +1}; otherwise a single rotation towards the light side, preceded
\* by the opposite rotation of the heavy child when that child leans the
\* other way (LR and RL); a heavy child that leans neither way gets the
\* single rotation.
maybe_balance(tree) ==
    LET bf == tree_balance_factor(tree)
        left == bf < 0
        heavy == child(tree, left)[1]
    IN  IF bf \in {-1, 0, 1} THEN tree
        ELSE IF (left /\ tree_balance_factor(heavy) > 0)
                  \/ (~left /\ tree_balance_factor(heavy) < 0)
        THEN rotate(attach(tree, left, Some(rotate(heavy, ~left))), left)
        ELSE rotate(tree, left)

RECURSIVE put(_, _, _)
\* Insert/update: BST descent; a leaf is created or the value rewritten at
\* the key; heights are refreshed and nodes rebalanced on the way back.
put(maybe_tree, key, value) ==
    IF maybe_tree = None
    THEN [key |-> key, value |-> value, left |-> None, right |-> None]
    ELSE
      LET tree == maybe_tree[1]
      IN  IF key = tree.key THEN [tree EXCEPT !.value = value]
          ELSE LET left == key < tree.key
               IN  maybe_balance(
                     attach(tree, left, Some(put(child(tree, left), key, value))))

RECURSIVE edge(_, _)
\* The outermost node on one side of a tree.
edge(tree, left) ==
    IF child(tree, left) = None THEN tree ELSE edge(child(tree, left)[1], left)

RECURSIVE delete(_, _)
\* Delete: BST descent; an absent key changes nothing; a node with at most
\* one child is replaced by that child; a node with two children is replaced
\* by the edge node of its taller side (the right one on a tie), which is
\* deleted from that side; nodes are rebalanced on the way back.
delete(maybe_tree, key) ==
    IF maybe_tree = None THEN None
    ELSE
      LET tree == maybe_tree[1]
      IN  IF key # tree.key
          THEN LET left == key < tree.key
               IN  Some(maybe_balance(
                     attach(tree, left, delete(child(tree, left), key))))
          ELSE IF tree.left = None THEN child(tree, FALSE)
          ELSE IF tree.right = None THEN child(tree, TRUE)
          ELSE
            LET left == child_height(tree.left) > child_height(tree.right)
                e == edge(child(tree, left)[1], ~left)
                rest == delete(child(tree, left), e.key)
            IN  Some(maybe_balance(
                  attach([tree EXCEPT !.key = e.key, !.value = e.value],
                         left, rest)))

RECURSIVE apply_merk_ops(_, _)
\* The operations of a batch, applied in order.
apply_merk_ops(maybe_tree, batch) ==
    IF batch = <<>> THEN maybe_tree
    ELSE LET o == Head(batch)
             next == IF o.op = "Put" THEN Some(put(maybe_tree, o.key, o.value))
                     ELSE delete(maybe_tree, o.key)
         IN  apply_merk_ops(next, Tail(batch))

\* Merk::apply: a batch that is not strictly sorted is rejected and leaves
\* the Merk as it was; otherwise its operations are applied in order.
apply(merk0, batch) ==
    IF ~strictly_sorted(batch) THEN [ok |-> FALSE, after |-> merk0]
    ELSE [ok |-> TRUE, after |-> [tree |-> apply_merk_ops(merk0.tree, batch)]]

\* The hash a null link contributes.
NULL_HASH == <<"null">>

\* (mutant) the kv-hash covers the key only.
kv_hash_of_key(key, value) == <<"H", <<"H", key>>>>

\* kv-hash = H(H(key) || H(value))
kv_hash(key, value) == <<"H", <<"H", key>>, <<"H", value>>>>

RECURSIVE node_hash(_)
\* node hash = H(kv-hash || left.hash || right.hash)
node_hash(maybe_tree) ==
    IF maybe_tree = None THEN NULL_HASH
    ELSE LET tree == maybe_tree[1]
         IN  <<"H", kv_hash(tree.key, tree.value),
               node_hash(child(tree, TRUE)), node_hash(child(tree, FALSE))>>

InitMerk ==
    /\ merk_state = Some([tree |-> None])
    /\ mres = [fn |-> "none"]
    /\ link = None
    /\ build \in {"debug", "release"}
    /\ out = NoOut
    /\ res = NoRes
    /\ IdleStorage
    /\ IdlePrefix
    /\ IdleGrove

\* Merk::apply of one batch.
Apply ==
    \E batch \in MerkBatches :
      LET r == apply(merk_state[1], batch)
      IN  /\ merk_state' = Some(r.after)
          /\ mres' = [fn |-> "apply", ok |-> r.ok, len |-> Len(batch)]
          /\ UNCHANGED <<storageVars, prefixVars, linkVars, groveVars>>

SpecMerk == InitMerk /\ [][Apply]_vars

RECURSIVE TrueHeight(_)
\* The number of nodes on the longest way down a tree.
TrueHeight(maybe_tree) ==
    IF maybe_tree = None THEN 0
    ELSE LET l == TrueHeight(child(maybe_tree[1], TRUE))
             r == TrueHeight(child(maybe_tree[1], FALSE))
         IN  1 + IF l >= r THEN l ELSE r

RECURSIVE Nodes(_)
\* The nodes reachable from a tree, the tree included.
Nodes(maybe_tree) ==
    IF maybe_tree = None THEN {}
    ELSE {maybe_tree[1]} \cup Nodes(child(maybe_tree[1], TRUE))
                         \cup Nodes(child(maybe_tree[1], FALSE))

\* The links of the reachable nodes.
ReachableLinks(maybe_tree) ==
    {n.left[1] : n \in {x \in Nodes(maybe_tree) : x.left # None}}
      \cup {n.right[1] : n \in {x \in Nodes(maybe_tree) : x.right # None}}

\* The key/value pairs a tree holds.
Content(maybe_tree) == {<<n.key, n.value>> : n \in Nodes(maybe_tree)}

\* C24: after every batch applied to a Merk, the link to each reachable node
\* records the true heights of the node's two subtrees and has a balance
\* factor in {-1, 0, +1}; so has the root, and the keys are in search order.
C24_AvlBalanced ==
    merk_state # None =>
      /\ \A l \in ReachableLinks(merk_state[1].tree) :
           /\ l.child_heights = <<TrueHeight(child(l.tree, TRUE)),
                                  TrueHeight(child(l.tree, FALSE))>>
           /\ balance_factor(l, build).status = "ok"
           /\ balance_factor(l, build).value \in {-1, 0, 1}
      /\ \A n \in Nodes(merk_state[1].tree) :
           /\ tree_balance_factor(n) \in {-1, 0, 1}
           /\ \A x \in Nodes(child(n, TRUE)) : x.key < n.key
           /\ \A x \in Nodes(child(n, FALSE)) : x.key > n.key

\* A Merk of four keys after a batch: three levels, the root leaning right.
C24_Witness ==
    /\ merk_state # None
    /\ mres.fn = "apply"
    /\ mres.ok
    /\ Cardinality(Nodes(merk_state[1].tree)) = 4
    /\ tree_balance_factor(merk_state[1].tree[1]) = 1

\* The Merks some sequence of at most three puts leaves.
PutHistories ==
    UNION {[1..n -> {o \in MerkOps : o.op = "Put"}] : n \in 0..3}
RefMerks == {[tree |-> apply_merk_ops(None, h)] : h \in PutHistories}

\* C25 (as stated): the Merk has the same root hash as the Merk another
\* sequence of operations leaves if and only if the two hold the same
\* key/value pairs.
C25_HashIffContent ==
    merk_state # None =>
      \A r \in RefMerks :
        (node_hash(merk_state[1].tree) = node_hash(r.tree))
          <=> (Content(merk_state[1].tree) = Content(r.tree))

\* C25 (amended): two Merks with the same root hash hold the same key/value
\* pairs.
C25_SameHashSameContent ==
    merk_state # None =>
      \A r \in RefMerks :
        (node_hash(merk_state[1].tree) = node_hash(r.tree))
          => (Content(merk_state[1].tree) = Content(r.tree))

\* A Merk of three keys, reached by a batch, with the root hash of a Merk
\* that three puts leave.
C25_Witness ==
    /\ merk_state # None
    /\ mres.fn = "apply"
    /\ mres.ok
    /\ Cardinality(Content(merk_state[1].tree)) = 3
    /\ \E r \in RefMerks :
         node_hash(merk_state[1].tree) = node_hash(r.tree)

----------------------------------------------------------------------------
(* GroveDb::insert *)

GroveKeys == {<<97>>, <<98>>}
ItemValues == {<<1>>, <<2>>}

\* The paths insert is called with.
GrovePaths == UNION {[1..n -> GroveKeys] : n \in 0..MaxDepth}

\* GroveDb::compress_subtree_key(path, key): the prefix of the subtree at path,
\* or under key at path.
compress_subtree_key(p, key) ==
    blake3_hash(hash_input(IF key = None THEN p ELSE Append(p, key[1]),
                           [endian |-> "little", pointer_width |-> 8]))

\* The records of a Merk, by key; its root hash stands for its content.
EmptyMerk == [k \in GroveKeys |-> None]
merk_root_hash(content) == <<"merk", content>>

Tree(hash) == [kind |-> "Tree", hash |-> hash]
Item(value) == [kind |-> "Item", value |-> value]

\* Element::empty_tree() and the items insert is called with.
Elements == {Tree(merk_root_hash(EmptyMerk))} \cup {Item(v) : v \in ItemValues}

GroveErr(kind, msg, g) == [ok |-> FALSE, err |-> <<kind, msg>>, grove |-> g]
GroveOk(g) == [ok |-> TRUE, err |-> <<>>, grove |-> g]

NoGroveFail == [site |-> "none", at |-> 0]

\* Merk::open on the storage under a prefix: a handle on the records stored
\* there.
merk_open(subtree_prefix) == [prefix |-> subtree_prefix]

\* The records stored under a prefix; none before the first write.
merk_records(g, subtree_prefix) ==
    IF subtree_prefix \in DOMAIN g.merks THEN g.merks[subtree_prefix]
    ELSE EmptyMerk

\* Merk::root_hash
root_hash(g, merk) == merk_root_hash(merk_records(g, merk.prefix))

\* HashMap::insert
map_insert(m, k, v) == [x \in DOMAIN m \cup {k} |-> IF x = k THEN v ELSE m[x]]

\* Element::insert(&mut merk, key): the element is written under key,
\* replacing what was there.
element_insert(g, merk, key, element) ==
    [g EXCEPT !.merks =
        map_insert(@, merk.prefix,
                   [merk_records(g, merk.prefix) EXCEPT ![key] = Some(element)])]

\* The grove Merkle: one leaf per registered root leaf, at its index, holding
\* the root hash of its subtree.
build_root_tree(g) ==
    [i \in 1..Cardinality(DOMAIN g.root_leaf_keys) |->
        LET at == {p \in DOMAIN g.root_leaf_keys : g.root_leaf_keys[p] = i - 1}
        IN  IF at = {} THEN merk_root_hash(EmptyMerk)
            ELSE root_hash(g, g.subtrees[CHOOSE p \in at : TRUE])]

\* propagate_changes(path): from the deepest subtree up, the Tree element of
\* the parent is overwritten with the subtree's root hash; at the top the grove
\* Merkle is rebuilt. fail is the parent update at which the backend fails
\* (0: none does).
RECURSIVE propagate_changes(_, _, _)
propagate_changes(g, p, fail) ==
    IF Len(p) = 0 THEN GroveOk(g)
    ELSE IF Len(p) = 1 THEN GroveOk([g EXCEPT !.root_tree = build_root_tree(g)])
    ELSE
      LET key == p[Len(p)]
          path_slice == SubSeq(p, 1, Len(p) - 1)
          subtree == compress_subtree_key(p, None)
          upper_tree == compress_subtree_key(path_slice, None)
      IN  IF subtree \notin DOMAIN g.subtrees \/ upper_tree \notin DOMAIN g.subtrees
          THEN GroveErr("InvalidPath", "no subtree found under that path", g)
          ELSE IF fail = 1 THEN GroveErr("StorageError", "backend", g)
          ELSE propagate_changes(
                 element_insert(g, g.subtrees[upper_tree], key,
                                Tree(root_hash(g, g.subtrees[subtree]))),
                 path_slice, IF fail = 0 THEN 0 ELSE fail - 1)

\* store_subtrees_keys_data: the prefixes of the open subtrees and the root
\* leaf index are written to storage.
store_subtrees_keys_data(g, fail) ==
    IF fail.site = "store" THEN GroveErr("StorageError", "backend", g)
    ELSE GroveOk([g EXCEPT !.stored = [subtrees |-> DOMAIN g.subtrees,
                                       root_leaf_keys |-> g.root_leaf_keys]])

\* create_merk_with_prefix: the prefix of key under path, and the Merk opened
\* on it.
create_merk_with_prefix(g, p, key, fail) ==
    IF fail.site = "open"
    THEN [ok |-> FALSE, err |-> <<"CorruptedData", "open">>]
    ELSE LET subtree_prefix == compress_subtree_key(p, Some(key))
         IN  [ok |-> TRUE, subtree_prefix |-> subtree_prefix,
              subtree_merk |-> merk_open(subtree_prefix)]

\* (mutant) the root leaf is given the leaf count as its index on every call.
add_root_leaf_always_registers(g, key, fail) ==
    LET created == create_merk_with_prefix(g, <<>>, key, fail)
    IN  IF ~created.ok THEN [ok |-> FALSE, err |-> created.err, grove |-> g]
        ELSE propagate_changes(
               [g EXCEPT !.subtrees = map_insert(@, created.subtree_prefix,
                                                 created.subtree_merk),
                         !.root_leaf_keys = map_insert(@, created.subtree_prefix,
                                                       Len(g.root_tree))],
               <<key>>, 0)

\* GroveDb::add_root_leaf
add_root_leaf(g, key, fail) ==
    LET created == create_merk_with_prefix(g, <<>>, key, fail)
    IN  IF ~created.ok THEN [ok |-> FALSE, err |-> created.err, grove |-> g]
        ELSE
          LET g1 == [g EXCEPT !.subtrees =
                        map_insert(@, created.subtree_prefix,
                                   created.subtree_merk)]
              g2 == IF created.subtree_prefix \notin DOMAIN g1.root_leaf_keys
                    THEN [g1 EXCEPT !.root_leaf_keys =
                            map_insert(@, created.subtree_prefix,
                                       Len(g1.root_tree))]
                    ELSE g1
          IN  propagate_changes(g2, <<key>>,
                                IF fail.site = "propagate" THEN fail.at ELSE 0)

\* (mutant) the upper tree is not looked up before the subtree is created.
add_non_root_subtree_unchecked(g, p, key, fail) ==
    LET created == create_merk_with_prefix(g, p, key, fail)
        g1 == [g EXCEPT !.subtrees =
                  map_insert(@, created.subtree_prefix, created.subtree_merk)]
    IN  IF ~created.ok THEN [ok |-> FALSE, err |-> created.err, grove |-> g]
        ELSE IF compress_subtree_key(p, None) \notin DOMAIN g.subtrees
        THEN GroveErr("InvalidPath", "no subtree found under that path", g1)
        ELSE propagate_changes(
               element_insert(g1, g1.subtrees[compress_subtree_key(p, None)],
                              key, Tree(root_hash(g, created.subtree_merk))),
               p, 0)

\* (mutant) the changes are not propagated upward.
add_non_root_subtree_without_propagate(g, p, key, fail) ==
    LET compressed_path == compress_subtree_key(p, None)
        created == create_merk_with_prefix(g, p, key, fail)
    IN  IF compressed_path \notin DOMAIN g.subtrees
        THEN GroveErr("InvalidPath", "no subtree found under that path", g)
        ELSE IF ~created.ok
        THEN [ok |-> FALSE, err |-> created.err, grove |-> g]
        ELSE
          LET g1 == [g EXCEPT !.subtrees =
                        map_insert(@, created.subtree_prefix,
                                   created.subtree_merk)]
          IN  GroveOk(element_insert(g1, g1.subtrees[compressed_path], key,
                         Tree(root_hash(g, created.subtree_merk))))

\* GroveDb::add_non_root_subtree
add_non_root_subtree(g, p, key, fail) ==
    LET compressed_path == compress_subtree_key(p, None)
    IN  IF compressed_path \notin DOMAIN g.subtrees
        THEN GroveErr("InvalidPath", "no subtree found under that path", g)
        ELSE
          LET created == create_merk_with_prefix(g, p, key, fail)
          IN  IF ~created.ok
              THEN [ok |-> FALSE, err |-> created.err, grove |-> g]
              ELSE
                LET element == Tree(root_hash(g, created.subtree_merk))
                    g1 == [g EXCEPT !.subtrees =
                              map_insert(@, created.subtree_prefix,
                                         created.subtree_merk)]
                    merk == g1.subtrees[compressed_path]
                IN  IF fail.site = "insert"
                    THEN GroveErr("StorageError", "backend", g1)
                    ELSE propagate_changes(
                           element_insert(g1, merk, key, element), p,
                           IF fail.site = "propagate" THEN fail.at ELSE 0)

\* (mutant) every element is inserted as a Tree is.
insert_any_as_tree(g, p, key, element, fail) ==
    LET r == IF p = <<>> THEN add_root_leaf(g, key, fail)
             ELSE add_non_root_subtree(g, p, key, fail)
    IN  IF ~r.ok THEN r ELSE store_subtrees_keys_data(r.grove, fail)

\* GroveDb::insert: the result, and the grove it leaves.
insert(g, p, key, element, fail) ==
    IF element.kind = "Tree"
    THEN LET r == IF p = <<>> THEN add_root_leaf(g, key, fail)
                  ELSE add_non_root_subtree(g, p, key, fail)
         IN  IF ~r.ok THEN r ELSE store_subtrees_keys_data(r.grove, fail)
    ELSE IF p = <<>>
    THEN GroveErr("InvalidPath",
                  "only subtrees are allowed as root tree's leafs", g)
    ELSE
      LET compressed_path == compress_subtree_key(p, None)
      IN  IF compressed_path \notin DOMAIN g.subtrees
          THEN GroveErr("InvalidPath", "no subtree found under that path", g)
          ELSE IF fail.site = "insert"
          THEN GroveErr("StorageError", "backend", g)
          ELSE propagate_changes(
                 element_insert(g, g.subtrees[compressed_path], key, element),
                 p, IF fail.site = "propagate" THEN fail.at ELSE 0)

\* The backend failures a call can meet on its way: opening the Merk, writing
\* the element, one of the parent updates of propagate_changes, storing the
\* subtree keys. A call that returns InvalidPath reaches none of them.
GroveFails(g, p, element) ==
    IF p = <<>>
    THEN IF element.kind = "Tree"
         THEN {NoGroveFail, [site |-> "open", at |-> 0],
               [site |-> "store", at |-> 0]}
         ELSE {NoGroveFail}
    ELSE IF compress_subtree_key(p, None) \notin DOMAIN g.subtrees
    THEN {NoGroveFail}
    ELSE {NoGroveFail, [site |-> "insert", at |-> 0]}
           \cup {[site |-> "propagate", at |-> k] : k \in 1..(Len(p) - 1)}
           \cup (IF element.kind = "Tree"
                 THEN {[site |-> "open", at |-> 0], [site |-> "store", at |-> 0]}
                 ELSE {})

\* GroveDb::open on an empty database.
EmptyGrove ==
    [subtrees |-> [x \in {} |-> x],
     root_leaf_keys |-> [x \in {} |-> x],
     root_tree |-> <<>>,
     merks |-> [x \in {} |-> x],
     stored |-> [subtrees |-> {}, root_leaf_keys |-> [x \in {} |-> x]]]

\* A grove already holding the subtree a, the subtree b under it, and an item
\* in that one.
PopulatedGrove ==
    LET g1 == insert(EmptyGrove, <<>>, <<97>>,
                     Tree(merk_root_hash(EmptyMerk)), NoGroveFail).grove
        g2 == insert(g1, << <<97>> >>, <<98>>,
                     Tree(merk_root_hash(EmptyMerk)), NoGroveFail).grove
    IN  insert(g2, << <<97>>, <<98>> >>, <<97>>, Item(<<1>>),
               NoGroveFail).grove

InitGroves == {EmptyGrove, PopulatedGrove}

InitGrove ==
    /\ grove \in InitGroves
    /\ gop = [fn |-> "open", path |-> <<>>, key |-> <<>>,
              element |-> Tree(merk_root_hash(EmptyMerk)),
              fail |-> NoGroveFail, ok |-> TRUE, err |-> <<>>, n |-> 0]
    /\ IdleStorage
    /\ IdlePrefix
    /\ IdleLink
    /\ IdleMerk

Insert ==
    /\ gop.n < MaxInserts
    /\ \E p \in GrovePaths, key \in GroveKeys, element \in Elements :
         \E fail \in GroveFails(grove, p, element) :
           LET r == insert(grove, p, key, element, fail)
           IN  /\ grove' = r.grove
               /\ gop' = [fn |-> "insert", path |-> p, key |-> key,
                          element |-> element, fail |-> fail, ok |-> r.ok,
                          err |-> r.err, n |-> gop.n + 1]

NextGrove ==
    Insert /\ UNCHANGED <<storageVars, prefixVars, linkVars, merkVars>>

SpecGrove == InitGrove /\ [][NextGrove]_vars

----------------------------------------------------------------------------
(* GroveDb::insert_if_not_exists and GroveDb::is_empty_tree *)

\* GroveDb::get(path, key): the element stored under key in the subtree at
\* path; an error when no subtree is open at path, when the subtree holds
\* nothing under key, or when the backend fails (fail.site = "get").
get(g, p, key, fail) ==
    LET compressed_path == compress_subtree_key(p, None)
    IN  IF compressed_path \notin DOMAIN g.subtrees
        THEN [ok |-> FALSE, err |-> <<"InvalidPath", "no subtree found under that path">>]
        ELSE IF fail.site = "get"
        THEN [ok |-> FALSE, err |-> <<"StorageError", "backend">>]
        ELSE IF merk_records(g, compressed_path)[key] = None
        THEN [ok |-> FALSE, err |-> <<"InvalidPath", "key not found in Merk">>]
        ELSE [ok |-> TRUE, value |-> merk_records(g, compressed_path)[key][1]]

\* GroveDb::insert_if_not_exists: Ok(false) when get is Ok; otherwise what
\* insert returns, with Ok(()) as Ok(true).
insert_if_not_exists(g, p, key, element, fail) ==
    IF get(g, p, key, fail).ok
    THEN [ok |-> TRUE, value |-> FALSE, err |-> <<>>, grove |-> g]
    ELSE [value |-> insert(g, p, key, element, fail).ok]
           @@ insert(g, p, key, element, fail)

\* The transactions is_empty_tree is given: none, or one holding a single
\* uncommitted write (put: Some(element), or None for a delete) under key in
\* the subtree at path.
GroveTransactions ==
    {None} \cup
      {Some(t) : t \in [path : {<< <<97>> >>, << <<97>>, <<98>> >>},
                        key : {<<97>>},
                        put : {None, Some(Item(<<2>>))}]}

\* get_subtrees().get_subtree(path, transaction): the records of the subtree
\* at path as the transaction sees them; an error when no subtree is open at
\* path or when the backend fails (fail.site = "get_subtree").
get_subtree(g, p, transaction, fail) ==
    LET compressed_path == compress_subtree_key(p, None)
        stored == merk_records(g, compressed_path)
    IN  IF compressed_path \notin DOMAIN g.subtrees
        THEN [ok |-> FALSE, err |-> <<"InvalidPath", "no subtree found under that path">>]
        ELSE IF fail.site = "get_subtree"
        THEN [ok |-> FALSE, err |-> <<"StorageError", "backend">>]
        ELSE [ok |-> TRUE,
              merk |-> IF transaction # None /\ transaction[1].path = p
                       THEN [stored EXCEPT ![transaction[1].key] =
                                              transaction[1].put]
                       ELSE stored]

\* (mutant) the transaction is not looked through.
is_empty_tree_without_transaction(g, p, transaction, fail) ==
    LET sub == get_subtree(g, p, None, fail)
    IN  IF ~sub.ok THEN [ok |-> FALSE, err |-> sub.err]
        ELSE [ok |-> TRUE, err |-> <<>>,
              value |-> ~(\E k \in DOMAIN sub.merk : sub.merk[k] # None)]

\* GroveDb::is_empty_tree: the iterator over the subtree's records, moved to
\* the first one, is not valid.
is_empty_tree(g, p, transaction, fail) ==
    LET sub == get_subtree(g, p, transaction, fail)
    IN  IF ~sub.ok THEN [ok |-> FALSE, err |-> sub.err]
        ELSE LET valid == \E k \in DOMAIN sub.merk : sub.merk[k] # None
             IN  [ok |-> TRUE, err |-> <<>>, value |-> ~valid]

InsertIfNotExists ==
    /\ gop.n < MaxGroveCalls
    /\ \E p \in GrovePaths, key \in GroveKeys, element \in Elements :
         \E fail \in GroveFails(grove, p, element)
                       \cup {[site |-> "get", at |-> 0]} :
           LET r == insert_if_not_exists(grove, p, key, element, fail)
           IN  /\ grove' = r.grove
               /\ gop' = [fn |-> "insert_if_not_exists", path |-> p,
                          key |-> key, element |-> element, fail |-> fail,
                          ok |-> r.ok, value |-> r.value, err |-> r.err,
                          n |-> gop.n + 1]

IsEmptyTree ==
    /\ gop.n < MaxGroveCalls
    /\ \E p \in GrovePaths, transaction \in GroveTransactions :
         \E fail \in {NoGroveFail, [site |-> "get_subtree", at |-> 0]} :
           LET r == is_empty_tree(grove, p, transaction, fail)
           IN  /\ grove' = grove
               /\ gop' = [fn |-> "is_empty_tree", path |-> p,
                          transaction |-> transaction, fail |-> fail,
                          ok |-> r.ok,
                          value |-> IF r.ok THEN r.value ELSE FALSE,
                          err |-> r.err, n |-> gop.n + 1]

NextGroveOps ==
    /\ \/ InsertIfNotExists
       \/ IsEmptyTree
    /\ UNCHANGED <<storageVars, prefixVars, linkVars, merkVars>>

SpecGroveOps == InitGrove /\ [][NextGroveOps]_vars

----------------------------------------------------------------------------
(* Claims about GroveDb::insert *)

Registered(g, subtree_prefix) == subtree_prefix \in DOMAIN g.subtrees

\* The element stored under key in the subtree at path p.
ElementAt(g, p, key) == merk_records(g, compress_subtree_key(p, None))[key]

\* C16: insert with an empty path and an element that is not a Tree returns
\* Error::InvalidPath and leaves subtrees, root_leaf_keys, root_tree and what
\* is stored as they were.
C16_RootRejectsNonTree ==
    [][(gop'.fn = "insert" /\ gop'.path = <<>> /\ gop'.element.kind # "Tree") =>
        /\ ~gop'.ok
        /\ gop'.err[1] = "InvalidPath"
        /\ grove' = grove]_vars

\* An item was refused at the root of a grove that holds subtrees.
C16_Witness ==
    /\ gop.fn = "insert"
    /\ gop.path = <<>>
    /\ gop.element.kind = "Item"
    /\ ~gop.ok
    /\ DOMAIN grove.subtrees # {}

\* C17: insert with a non-empty path that addresses no open subtree returns
\* Error::InvalidPath, for a Tree as for any other element, and changes
\* nothing: no subtree is opened or registered, no element is written.
C17_MissingPathRejected ==
    [][(gop'.fn = "insert" /\ gop'.path # <<>>
            /\ ~Registered(grove, compress_subtree_key(gop'.path, None))) =>
        /\ ~gop'.ok
        /\ gop'.err[1] = "InvalidPath"
        /\ grove' = grove]_vars

\* A Tree was refused under a path of two segments that addresses no subtree,
\* in a grove that holds subtrees.
C17_Witness ==
    /\ gop.fn = "insert"
    /\ Len(gop.path) = 2
    /\ gop.element.kind = "Tree"
    /\ ~gop.ok
    /\ gop.err[1] = "InvalidPath"
    /\ ~Registered(grove, compress_subtree_key(gop.path, None))
    /\ DOMAIN grove.subtrees # {}

\* C18: after any sequence of insert calls, a subtree is registered for the
\* prefix of (path, key) if and only if a Tree element is stored under key in
\* the subtree at path, or, for the empty path, key is a registered root leaf.
C18_SubtreeIffTreeElement ==
    \A p \in GrovePaths, key \in GroveKeys :
        Registered(grove, compress_subtree_key(p, Some(key))) <=>
            IF p = <<>>
            THEN compress_subtree_key(p, Some(key)) \in DOMAIN grove.root_leaf_keys
            ELSE /\ ElementAt(grove, p, key) # None
                 /\ ElementAt(grove, p, key)[1].kind = "Tree"

\* C19: after a successful insert, every subtree on the path from the mutated
\* subtree up to the root has its current root hash in the Tree element the
\* parent stores under its key, and the grove Merkle holds the current root
\* hash of every root leaf at its index.
C19_RootHashEmbedded ==
    (gop.fn = "insert" /\ gop.ok) =>
        LET mutated == IF gop.element.kind = "Tree"
                       THEN Append(gop.path, gop.key) ELSE gop.path
        IN  /\ \A i \in 2..Len(mutated) :
                  ElementAt(grove, SubSeq(mutated, 1, i - 1), mutated[i]) =
                      Some(Tree(merk_root_hash(
                          merk_records(grove,
                              compress_subtree_key(SubSeq(mutated, 1, i), None)))))
            /\ Len(grove.root_tree) = Cardinality(DOMAIN grove.root_leaf_keys)
            /\ \A leaf \in DOMAIN grove.root_leaf_keys :
                  grove.root_tree[grove.root_leaf_keys[leaf] + 1] =
                      merk_root_hash(merk_records(grove, leaf))

\* A Tree was inserted again under b at [a], where b opens a subtree that
\* holds a record.
C19_Witness ==
    /\ gop.fn = "insert"
    /\ gop.ok
    /\ gop.element.kind = "Tree"
    /\ gop.path = << <<97>> >>
    /\ gop.key = <<98>>
    /\ merk_records(grove, compress_subtree_key(<< <<97>>, <<98>> >>, None))
         # EmptyMerk

\* C31: insert_if_not_exists never overwrites: when an element is stored at
\* (path, key) it returns Ok(false) and leaves the grove as it was; it returns
\* Ok(true) only when no element was stored there and the insert succeeded;
\* otherwise it returns the insert's error.
C31_NeverOverwrites ==
    [][gop'.fn = "insert_if_not_exists" =>
        LET exists ==
              /\ Registered(grove, compress_subtree_key(gop'.path, None))
              /\ ElementAt(grove, gop'.path, gop'.key) # None
            r == insert(grove, gop'.path, gop'.key, gop'.element, gop'.fail)
        IN  /\ exists => (gop'.ok /\ ~gop'.value /\ grove' = grove)
            /\ (gop'.ok /\ gop'.value) =>
                 (~exists /\ r.ok /\ grove' = r.grove)
            /\ ~gop'.ok => (~r.ok /\ gop'.err = r.err)]_vars

\* C32: the indexes of root_leaf_keys are distinct, every open root subtree
\* has one, a key registered by a call gets the number of leaves the grove
\* Merkle had before the call, and a registered key keeps its index.
C32_RootLeafIndexes ==
    [][/\ \A a, b \in DOMAIN grove'.root_leaf_keys :
            a # b => grove'.root_leaf_keys[a] # grove'.root_leaf_keys[b]
       /\ \A key \in GroveKeys :
            Registered(grove', compress_subtree_key(<<>>, Some(key))) =>
              compress_subtree_key(<<>>, Some(key))
                \in DOMAIN grove'.root_leaf_keys
       /\ \A a \in DOMAIN grove.root_leaf_keys :
            /\ a \in DOMAIN grove'.root_leaf_keys
            /\ grove'.root_leaf_keys[a] = grove.root_leaf_keys[a]
       /\ \A a \in DOMAIN grove'.root_leaf_keys \ DOMAIN grove.root_leaf_keys :
            grove'.root_leaf_keys[a] = Len(grove.root_tree)]_vars

\* A Tree was inserted again under the root key a, registered first, after b
\* was registered second.
C32_Witness ==
    /\ gop.fn = "insert"
    /\ gop.ok
    /\ gop.path = <<>>
    /\ gop.key = <<97>>
    /\ gop.n = 2
    /\ DOMAIN grove.root_leaf_keys =
         {compress_subtree_key(<<>>, Some(k)) : k \in GroveKeys}
    /\ grove.root_leaf_keys[compress_subtree_key(<<>>, Some(<<97>>))] = 0
    /\ grove.root_leaf_keys[compress_subtree_key(<<>>, Some(<<98>>))] = 1

\* The record under key k of the subtree at path p, as a transaction sees it.
SeenThrough(g, p, transaction, k) ==
    IF transaction # None /\ transaction[1].path = p /\ transaction[1].key = k
    THEN transaction[1].put
    ELSE ElementAt(g, p, k)

\* C33: is_empty_tree never modifies the grove; it returns Ok(true) only for
\* an open subtree that holds no record as seen through the transaction,
\* Ok(false) only for one that holds a record, an error when no subtree is
\* open at path, and Ok for every open subtree unless the backend fails.
C33_IsEmptyTree ==
    [][gop'.fn = "is_empty_tree" =>
        LET exists == Registered(grove, compress_subtree_key(gop'.path, None))
            empty == \A k \in GroveKeys :
                       SeenThrough(grove, gop'.path, gop'.transaction, k) = None
        IN  /\ grove' = grove
            /\ (gop'.ok /\ gop'.value) => (exists /\ empty)
            /\ (gop'.ok /\ ~gop'.value) => (exists /\ ~empty)
            /\ ~exists => (~gop'.ok /\ gop'.err[1] = "InvalidPath")
            /\ (exists /\ gop'.fail = NoGroveFail) => gop'.ok]_vars

\* The subtree at [a, b] stores an item, the transaction deletes it, and
\* is_empty_tree answered Ok(true).
C33_Witness ==
    /\ gop.fn = "is_empty_tree"
    /\ gop.path = << <<97>>, <<98>> >>
    /\ gop.transaction # None
    /\ gop.transaction[1].put = None
    /\ gop.ok
    /\ gop.value
    /\ merk_records(grove, compress_subtree_key(gop.path, None)) # EmptyMerk

====
